---------------------------- MODULE Spec2Model ----------------------------
(***************************************************************************)
(* State-machine model of utils/wrapper.py, class TrainingWrapper:         *)
(*   random_segment(speeches, lengths)   lines 25-40                       *)
(*   compute_loss(sid, speeches)         lines 42-89                       *)
(*                                                                         *)
(* Arrays are sequences (1-based); offsets such as `start` keep the        *)
(* 0-based values of the source.  Real numbers are kept exact:             *)
(*   - alphas_bar and the clamp floor are fixed point, One = 1.0;          *)
(*   - a logarithm is kept symbolically by its argument;                   *)
(*   - a normalized vector is kept as numerator vector and squared         *)
(*     denominator.                                                        *)
(* Floating-point rounding is not modelled.                                *)
(***************************************************************************)
EXTENDS Integers, Sequences, FiniteSets

VARIABLES
    speeches,   \* caller-owned [B, T] array passed to random_segment
    lengths,    \* caller-owned [B] array passed to random_segment
    sid,        \* caller-owned [B] speaker ids passed to compute_loss
    segs,       \* caller-owned [B, seglen] array passed to compute_loss
    config,     \* self.config: seglen, steps, null_prob
    model,      \* self.model parameters: spkembed table, nullspk, logsnr
    pc,         \* outcome of the last call
    locals,     \* local variables of the last call that the claims name
    ret         \* value returned by the last call

vars == <<speeches, lengths, sid, segs, config, model, pc, locals, ret>>

(***************************************************************************)
(* Bounds of the model.                                                    *)
(***************************************************************************)
BatchSize == 2      \* B
MaxT == 3           \* T, padded length of every speech row
MaxSeglen == 2      \* config.train.seglen ranges over 1..MaxSeglen
MaxSteps == 2       \* config.model.steps ranges over 1..MaxSteps
NumSpeakers == 2    \* rows of the speaker-embedding table
EmbDim == 2         \* E, embedding dimension
ProbUnit == 2       \* probabilities and uniform draws are multiples of 1/ProbUnit

Rows == 1..BatchSize
Speakers == 1..NumSpeakers
Dims == 1..EmbDim

Min(a, b) == IF a < b THEN a ELSE b
Max(a, b) == IF a > b THEN a ELSE b
Abs(a) == IF a < 0 THEN -a ELSE a

RECURSIVE SumSeq(_)
SumSeq(s) == IF s = <<>> THEN 0 ELSE Head(s) + SumSeq(Tail(s))

(***************************************************************************)
(* random_segment                                                          *)
(***************************************************************************)

\* `lengths -= seglen`: the same subtraction done in place on the caller's array.
RandintHighInPlace(lens, seglen) ==
    LET d == [i \in DOMAIN lens |-> lens[i] - seglen]
    IN  [high |-> d, lengths |-> d]

\* The bound clamped to at least 1, as np.maximum(lengths - seglen, 1) would.
RandintHighClamped(lens, seglen) ==
    [high |-> [i \in DOMAIN lens |-> IF lens[i] - seglen > 1 THEN lens[i] - seglen ELSE 1],
     lengths |-> lens]

\* line 37, `lengths - seglen`: numpy's binary minus allocates the result;
\* the record holds the result and the operand as the expression leaves it.
RandintHigh(lens, seglen) ==
    [high |-> [i \in DOMAIN lens |-> lens[i] - seglen], lengths |-> lens]

\* line 37, np.random.randint(high) with one argument: the half-open
\* range [0, high); empty when high <= 0.
RandintRange(high) == 0..(high - 1)

\* line 37, the [B] array np.random.randint(high) can return: one draw per
\* row, each row on its own.
StartDraws(high) ==
    LET top == CHOOSE m \in {high[i] : i \in DOMAIN high} :
                   \A i \in DOMAIN high : high[i] <= m
    IN  {st \in [DOMAIN high -> 0..(top - 1)] :
            \A i \in DOMAIN high : st[i] \in RandintRange(high[i])}

\* line 37: np.random.randint raises ValueError when some high <= 0.
RandintRaises(high) == \E i \in DOMAIN high : RandintRange(high[i]) = {}

\* line 40, n[lo:hi] for 0 <= lo <= hi: Python stops the slice at len(n).
Slice(n, lo, hi) == SubSeq(n, lo + 1, Min(hi, Len(n)))

\* line 39, np.stack raises ValueError unless all rows have one shape.
StackRaises(rows) == \E i, j \in DOMAIN rows : Len(rows[i]) # Len(rows[j])

\* The slice end taken as seglen instead of start + seglen: n[s:seglen].
SegmentRowsAbsoluteEnd(sp, start, seglen) ==
    [i \in DOMAIN sp |-> Slice(sp[i], start[i], Max(start[i], seglen))]

\* line 40, the list comprehension over zip(speeches, start).
SegmentRows(sp, start, seglen) ==
    [i \in DOMAIN sp |-> Slice(sp[i], start[i], start[i] + seglen)]

NoLocals == [op |-> "none"]
NoRet == [op |-> "none"]

\* random_segment returns the stacked segments.
RandomSegmentReturn ==
    LET r == RandintHigh(lengths, config.seglen)
    IN  /\ ~RandintRaises(r.high)
        /\ \E start \in StartDraws(r.high) :
              /\ LET rows == SegmentRows(speeches, start, config.seglen)
                 IN  /\ ~StackRaises(rows)
                     /\ pc' = "segment_returned"
                     /\ locals' = [op |-> "random_segment", start |-> start]
                     /\ ret' = [op |-> "random_segment", value |-> rows]
        /\ lengths' = r.lengths
        /\ UNCHANGED <<speeches, sid, segs, config, model>>

\* random_segment raises: ValueError of np.random.randint (line 37).
RandomSegmentRandintRaises ==
    LET r == RandintHigh(lengths, config.seglen)
    IN  /\ RandintRaises(r.high)
        /\ pc' = "segment_raised"
        /\ locals' = [op |-> "random_segment", raised_at |-> 37]
        /\ ret' = NoRet
        /\ lengths' = r.lengths
        /\ UNCHANGED <<speeches, sid, segs, config, model>>

\* random_segment raises: ValueError of np.stack (line 39), rows of unequal
\* length because a slice ran past the end of its row.
RandomSegmentStackRaises ==
    LET r == RandintHigh(lengths, config.seglen)
    IN  /\ ~RandintRaises(r.high)
        /\ \E start \in StartDraws(r.high) :
              /\ StackRaises(SegmentRows(speeches, start, config.seglen))
              /\ pc' = "segment_raised"
              /\ locals' = [op |-> "random_segment", raised_at |-> 39]
              /\ ret' = NoRet
        /\ lengths' = r.lengths
        /\ UNCHANGED <<speeches, sid, segs, config, model>>

(***************************************************************************)
(* compute_loss: exact arithmetic                                          *)
(***************************************************************************)

\* A rational number num/den, den > 0.
Rat(n, d) == [num |-> n, den |-> d]
RatAdd(a, b) == Rat(a.num * b.den + b.num * a.den, a.den * b.den)
RatSub(a, b) == Rat(a.num * b.den - b.num * a.den, a.den * b.den)
RatEq(a, b) == a.num * b.den = b.num * a.den

\* Fixed point for alphas_bar and the clamp floor: One is 1.0, so that one
\* unit is 1e-8 and the floor 1e-7 of lines 78-79 is ClampFloor units.
One == 100000000
ClampFloor == 10

\* torch.log of a fixed-point value x/One, kept by its argument: finite for
\* x > 0, -inf at 0, nan below 0.
LogTerm(x) ==
    [kind |-> IF x > 0 THEN "finite" ELSE IF x = 0 THEN "-inf" ELSE "nan",
     arg |-> x]

\* A real number rat + SUM log(pos[k]/One) - SUM log(neg[k]/One).
RConst(q) == [rat |-> q, pos |-> <<>>, neg |-> <<>>]
RLog(x) == [rat |-> Rat(0, 1), pos |-> <<LogTerm(x)>>, neg |-> <<>>]
RAdd(x, y) ==
    [rat |-> RatAdd(x.rat, y.rat), pos |-> x.pos \o y.pos, neg |-> x.neg \o y.neg]
RSub(x, y) ==
    [rat |-> RatSub(x.rat, y.rat), pos |-> x.pos \o y.neg, neg |-> x.neg \o y.pos]

Terms(x) == {x.pos[k] : k \in DOMAIN x.pos} \cup {x.neg[k] : k \in DOMAIN x.neg}

\* No -inf and no nan among the logarithms of x.
RFinite(x) == \A t \in Terms(x) : t.kind = "finite"

\* x >= 0 shown term by term: a rational part >= 0, added logarithms of
\* arguments >= 1 and subtracted logarithms of arguments <= 1.
RNonNeg(x) ==
    /\ RFinite(x)
    /\ x.rat.num >= 0
    /\ \A k \in DOMAIN x.pos : x.pos[k].arg >= One
    /\ \A k \in DOMAIN x.neg : x.neg[k].arg <= One

\* x <= 0, term by term.
RNonPos(x) ==
    /\ RFinite(x)
    /\ x.rat.num <= 0
    /\ \A k \in DOMAIN x.pos : x.pos[k].arg <= One
    /\ \A k \in DOMAIN x.neg : x.neg[k].arg >= One

\* For x with RNonNeg(x) or RNonPos(x): x = 0 iff every term is 0.
RZeroTerms(x) ==
    /\ x.rat.num = 0
    /\ \A t \in Terms(x) : t.arg = One

(***************************************************************************)
(* compute_loss: the steps of the source                                   *)
(***************************************************************************)

\* The log-SNR values the schedule is drawn from.
LogsnrVals == {-104, -17, 0, 17, 104}

\* line 75, torch.sigmoid in float32, in units of 1e-8: it saturates to
\* exactly 0 (exp overflows) and exactly 1 (1 + exp(-x) rounds to 1).
Sigmoid(x) ==
    CASE x = -104 -> 0
      [] x = -17 -> 4
      [] x = 0 -> One \div 2
      [] x = 17 -> One - 4
      [] x = 104 -> One

\* A comparison that also replaces a row whose draw equals null_prob.
NullMaskLeq(u, null_prob) == [i \in DOMAIN u |-> u[i] <= null_prob]

\* line 63, rand_like(sid) < null_prob, elementwise; draws and null_prob
\* are multiples of 1/ProbUnit.
NullMask(u, null_prob) == [i \in DOMAIN u |-> u[i] < null_prob]

\* line 61, self.model.spkembed(sid): a fresh [B, spk] tensor holding a copy
\* of the table row of each speaker id.
EmbeddingLookup(table, ids) == [i \in DOMAIN ids |-> table[ids[i]]]

\* line 64, spkembed[null] = nullspk: the masked rows of the lookup result
\* are overwritten with the null embedding.
IndexPut(emb, mask, value) ==
    [i \in DOMAIN emb |-> IF mask[i] THEN value ELSE emb[i]]

SumSq(v) == SumSeq([d \in DOMAIN v |-> v[d] * v[d]])

\* F.normalize's default eps = 1e-12, in embedding units: the model's
\* embedding components are integers in units of eps/2.
NormEps == 2

\* The row left as it is: the normalization forgotten.
NormalizeSkipped(v) == [num |-> v, densq |-> 1]

\* line 66, F.normalize(v, dim=-1) for one row: v / max(||v||_2, eps),
\* kept as the numerator vector and the square of the denominator.
Normalize(v) == [num |-> v, densq |-> Max(SumSq(v), NormEps * NormEps)]

NormalizeRows(emb) == [i \in DOMAIN emb |-> Normalize(emb[i])]

\* The squared L2 norm of a normalized row n is SumSq(n.num) / n.densq.
UnitNorm(n) == SumSq(n.num) = n.densq

\* Equality of two normalized rows as real vectors.
SameVector(a, b) ==
    /\ DOMAIN a.num = DOMAIN b.num
    /\ \A d \in DOMAIN a.num :
          /\ (a.num[d] > 0) = (b.num[d] > 0)
          /\ (a.num[d] < 0) = (b.num[d] < 0)
          /\ a.num[d] * a.num[d] * b.densq = b.num[d] * b.num[d] * a.densq

\* line 57, self.model.diffusion(speeches, steps): mean [B, seglen] and a
\* per-row std [B]; here the signal fades and the noise grows with the step.
Diffusion(x, steps, total) ==
    [mean |-> [i \in DOMAIN x |->
                  [j \in DOMAIN x[i] |-> x[i][j] * (total - steps[i])]],
     std |-> [i \in DOMAIN x |-> steps[i]]]

\* The standard-normal draws of torch.randn_like: two sign patterns.
RandnDraws(x) ==
    { [i \in DOMAIN x |-> [j \in DOMAIN x[i] |-> 1]],
      [i \in DOMAIN x |-> [j \in DOMAIN x[i] |-> IF (i + j) % 2 = 0 THEN 1 ELSE -1]] }

\* line 59, base_mean + randn_like(base_mean) * base_std[:, None].
Noised(mean, eps, std) ==
    [i \in DOMAIN mean |->
        [j \in DOMAIN mean[i] |-> mean[i][j] + eps[i][j] * std[i]]]

ZerosLike(x) == [i \in DOMAIN x |-> [j \in DOMAIN x[i] |-> 0]]

\* line 68, self.model.denoise(speeches, spkembed, steps): a prediction of
\* the shape of speeches; the model draws it from three.
DenoiseOutputs(x, base) == {base, x, ZerosLike(x)}

\* The signed mean: the absolute value forgotten.
MeanDiff(a, b) ==
    Rat(SumSeq([i \in DOMAIN a |->
                   SumSeq([j \in DOMAIN a[i] |-> a[i][j] - b[i][j]])]),
        Len(a) * Len(a[1]))

\* line 70, (base - denoised).abs().mean().
MeanAbsDiff(a, b) ==
    Rat(SumSeq([i \in DOMAIN a |->
                   SumSeq([j \in DOMAIN a[i] |-> Abs(a[i][j] - b[i][j])])]),
        Len(a) * Len(a[1]))

\* No floor at all.
ClampMinNone(x, floor) == x

\* lines 78-79, torch.clamp_min(x, floor).
ClampMin(x, floor) == Max(x, floor)

\* lines 77-79: log(clamp_min(1 - alphas_bar[-1], 1e-7))
\*            + log(clamp_min(alphas_bar[0], 1e-7)).
ScheduleLoss(alphas_bar) ==
    RAdd(RLog(ClampMin(One - alphas_bar[Len(alphas_bar)], ClampFloor)),
         RLog(ClampMin(alphas_bar[1], ClampFloor)))

\* The boundary term added instead of subtracted.
TotalLossAdded(noise_estim, schedule_loss) == RAdd(noise_estim, schedule_loss)

\* line 82, loss = noise_estim - schedule_loss.
TotalLoss(noise_estim, schedule_loss) == RSub(noise_estim, schedule_loss)

\* lines 54-59, the noised references a call can build: steps[i] drawn from
\* 0..steps-1 per row (torch.randint), the forward kernel's mean and std at
\* those steps, and the normal draws.
BaseDraws(x, total) ==
    { Noised(Diffusion(x, steps, total).mean, eps, Diffusion(x, steps, total).std) :
        steps \in [DOMAIN x -> 0..(total - 1)], eps \in RandnDraws(x) }

\* line 63, the masks a call can draw: one uniform draw u[i] in [0, 1) per
\* row (torch.rand_like), compared with null_prob.
NullDraws(ids, null_prob) ==
    { NullMask(u, null_prob) : u \in [DOMAIN ids -> 0..(ProbUnit - 1)] }

\* compute_loss returns (loss, losses, aux).
ComputeLossReturn ==
    /\ \E base \in BaseDraws(segs, config.steps),
          null \in NullDraws(sid, config.null_prob) :
          LET spkembed == NormalizeRows(
                  IndexPut(EmbeddingLookup(model.spkembed, sid), null, model.nullspk))
              alphas_bar == [k \in DOMAIN model.logsnr |-> Sigmoid(model.logsnr[k])]
              schedule_loss == ScheduleLoss(alphas_bar)
          IN  \E denoised \in DenoiseOutputs(segs, base) :
                 LET noise_estim == RConst(MeanAbsDiff(base, denoised))
                 IN  /\ pc' = "loss_returned"
                     /\ locals' = [op |-> "compute_loss", null |-> null,
                                   spkembed |-> spkembed]
                     /\ ret' = [op |-> "compute_loss",
                                loss |-> TotalLoss(noise_estim, schedule_loss),
                                losses |-> [noise_estim |-> noise_estim,
                                            schedule_loss |-> schedule_loss],
                                aux |-> [base |-> base, denoised |-> denoised,
                                         alphas_bar |-> alphas_bar]]
    /\ UNCHANGED <<speeches, lengths, sid, segs, config, model>>

\* compute_loss raises at line 63: sid is an integer tensor (line 46) and
\* torch's uniform sampler, which rand_like calls, is defined for floating
\* dtypes only, so a build may reject the call.  A build that accepts it
\* yields draws of sid's dtype, which is the draw 0 of ComputeLossReturn.
ComputeLossRandLikeRaises ==
    /\ pc' = "loss_raised"
    /\ locals' = [op |-> "compute_loss", raised_at |-> 63]
    /\ ret' = NoRet
    /\ UNCHANGED <<speeches, lengths, sid, segs, config, model>>

(***************************************************************************)
(* Initial states: the inputs, the configuration and the parameters        *)
(***************************************************************************)

RampSpeech == [i \in Rows |-> [j \in 1..MaxT |-> (i - 1) * MaxT + j]]
FlatSpeech == [i \in Rows |-> [j \in 1..MaxT |-> 7]]
SpeechBatches == {RampSpeech, FlatSpeech}

RampSegs(L) == [i \in Rows |-> [j \in 1..L |-> (i - 1) * L + j]]
SegsBatches(L) == {RampSegs(L), ZerosLike(RampSegs(L))}

Vec34(k) == [d \in Dims |-> IF d = 1 THEN 3 * k ELSE IF d = 2 THEN 4 * k ELSE 0]
Vec43 == [d \in Dims |-> IF d = 1 THEN 4 ELSE IF d = 2 THEN 3 ELSE 0]
VecZero == [d \in Dims |-> 0]
VecTiny == [d \in Dims |-> IF d = 1 THEN 1 ELSE 0]

\* Speaker tables: rows of ordinary size, and a table with an all-zero row
\* and rows shorter than eps.
SpkTables ==
    { [s \in Speakers |-> Vec34(s)],
      [s \in Speakers |-> IF s = 1 THEN VecZero ELSE VecTiny] }
NullSpks == {Vec43, VecZero, VecTiny}

\* The schedule collaborator's log-SNR vector has 1 + MaxSteps entries.
DefaultLogsnr == [k \in 1..(1 + MaxSteps) |-> IF k = 1 THEN 17 ELSE -17]

DefaultSid == [i \in Rows |-> 1]
SpreadSid == [i \in Rows |-> ((i - 1) % NumSpeakers) + 1]
DefaultModel ==
    [spkembed |-> [s \in Speakers |-> Vec34(s)], nullspk |-> Vec43,
     logsnr |-> DefaultLogsnr]

\* The true lengths a batch comes with: any lengths up to the padded length
\* T, and one batch whose lengths overstate its rows.
LengthVectors == [Rows -> 0..MaxT] \cup {[i \in Rows |-> MaxT + 2]}

\* The batches and segment lengths random_segment is called with.
InitSegment ==
    /\ speeches \in SpeechBatches
    /\ lengths \in LengthVectors
    /\ \E L \in 1..MaxSeglen :
          /\ config = [seglen |-> L, steps |-> 1, null_prob |-> 0]
          /\ segs = RampSegs(L)
    /\ sid = DefaultSid
    /\ model = DefaultModel

\* The speaker ids, embedding parameters and null_prob compute_loss is called with.
InitEmbedding ==
    /\ speeches = RampSpeech
    /\ lengths = [i \in Rows |-> MaxT]
    /\ \E p \in 0..ProbUnit :
          config = [seglen |-> 1, steps |-> 1, null_prob |-> p]
    /\ segs = RampSegs(1)
    /\ sid \in {DefaultSid, SpreadSid}
    /\ \E t \in SpkTables, n \in NullSpks :
          model = [spkembed |-> t, nullspk |-> n, logsnr |-> DefaultLogsnr]

\* The schedules compute_loss is called with.
InitSchedule ==
    /\ speeches = RampSpeech
    /\ lengths = [i \in Rows |-> MaxT]
    /\ config = [seglen |-> 1, steps |-> 1, null_prob |-> 0]
    /\ segs \in SegsBatches(1)
    /\ sid = DefaultSid
    /\ \E l \in [1..(1 + MaxSteps) -> LogsnrVals] :
          model = [spkembed |-> [s \in Speakers |-> Vec34(s)], nullspk |-> Vec43,
                   logsnr |-> l]

\* The numbers of diffusion steps compute_loss is called with.
InitDiffusion ==
    /\ speeches = RampSpeech
    /\ lengths = [i \in Rows |-> MaxT]
    /\ \E S \in 1..MaxSteps, L \in 1..MaxSeglen :
          /\ config = [seglen |-> L, steps |-> S, null_prob |-> 0]
          /\ segs \in SegsBatches(L)
    /\ sid = DefaultSid
    /\ model = DefaultModel

Init ==
    /\ pc = "idle"
    /\ locals = NoLocals
    /\ ret = NoRet
    /\ (InitSegment \/ InitEmbedding \/ InitSchedule \/ InitDiffusion)

Next ==
    \/ RandomSegmentReturn
    \/ RandomSegmentRandintRaises
    \/ RandomSegmentStackRaises
    \/ ComputeLossReturn
    \/ ComputeLossRandLikeRaises

Spec == Init /\ [][Next]_vars

(***************************************************************************)
(* Properties                                                              *)
(***************************************************************************)

SegmentPrecondition ==
    \A i \in Rows : lengths[i] >= config.seglen /\ lengths[i] <= MaxT

\* C1: for rows with lengths[i] >= seglen, every combination of per-row
\* offsets start[i] in the inclusive range 0..lengths[i]-seglen, the upper
\* bound included, is a possible outcome of random_segment.
C1_InclusiveOffsetsPossible ==
    SegmentPrecondition =>
        \A st \in [Rows -> 0..MaxT] :
            (\A i \in Rows : st[i] <= lengths[i] - config.seglen) =>
                ENABLED (RandomSegmentReturn /\ locals'.start = st)

\* C2: when lengths[i] = seglen for every row, random_segment returns, with
\* start[i] = 0 and the rows truncated to their first seglen samples.
C2_EqualLengthsReturnPrefix ==
    (locals.op = "random_segment" /\ \A i \in Rows : lengths[i] = config.seglen) =>
        /\ pc = "segment_returned"
        /\ \A i \in Rows : locals.start[i] = 0
        /\ ret.value = [i \in Rows |-> SubSeq(speeches[i], 1, config.seglen)]

\* C3: whenever random_segment returns under lengths[i] in seglen..T, the
\* result has B rows of seglen samples and row i is speeches[i] from start[i]
\* on, verbatim, with 0 <= start[i] <= lengths[i] - seglen.
C3_VerbatimSlice ==
    (pc = "segment_returned" /\ SegmentPrecondition) =>
        /\ DOMAIN ret.value = Rows
        /\ \A i \in Rows :
              /\ Len(ret.value[i]) = config.seglen
              /\ 0 <= locals.start[i]
              /\ locals.start[i] <= lengths[i] - config.seglen
              /\ locals.start[i] + config.seglen <= lengths[i]
              /\ \A k \in 1..config.seglen :
                    ret.value[i][k] = speeches[i][locals.start[i] + k]

\* A returned call on rows of different lengths with a non-zero offset.
C3_Witness ==
    /\ pc = "segment_returned"
    /\ SegmentPrecondition
    /\ speeches = RampSpeech
    /\ lengths[1] < lengths[2]
    /\ \E i \in Rows : locals.start[i] > 0

\* C4: if lengths[i] < seglen for some row, random_segment raises and
\* returns nothing.
C4_ShortRowRaises ==
    (locals.op = "random_segment" /\ \E i \in Rows : lengths[i] < config.seglen) =>
        (pc = "segment_raised" /\ ret = NoRet)

\* A raised call where one row is too short and another is long enough.
C4_Witness ==
    /\ pc = "segment_raised"
    /\ \E i \in Rows : lengths[i] < config.seglen
    /\ \E i \in Rows : lengths[i] > config.seglen /\ lengths[i] <= MaxT

\* C5: with null_prob = 1 every row handed to the denoiser is the normalized
\* null embedding; with null_prob = 0 no row is replaced and every row is the
\* normalized lookup of its speaker id.
C5_NullProbEndpoints ==
    pc = "loss_returned" =>
        /\ config.null_prob = ProbUnit =>
              \A i \in Rows :
                  /\ locals.null[i]
                  /\ locals.spkembed[i] = Normalize(model.nullspk)
        /\ config.null_prob = 0 =>
              \A i \in Rows :
                  /\ ~locals.null[i]
                  /\ locals.spkembed[i] = Normalize(model.spkembed[sid[i]])

\* A call with null_prob = 1 whose null embedding differs from every
\* looked-up row.
C5_Witness ==
    /\ pc = "loss_returned"
    /\ config.null_prob = ProbUnit
    /\ sid[1] # sid[2]
    /\ \A i \in Rows :
          ~SameVector(Normalize(model.nullspk), Normalize(model.spkembed[sid[i]]))

\* C6 as claimed: every row handed to the denoiser has L2 norm 1, whatever
\* the table and the null embedding hold.
C6_EveryRowUnitNorm ==
    pc = "loss_returned" => \A i \in Rows : UnitNorm(locals.spkembed[i])

\* C6 as amended: a row whose L2 norm before normalization is at least eps
\* has norm 1 after it; a row of smaller norm is divided by eps and has a
\* norm below 1 (the all-zero row stays all-zero).
C6_UnitNormAboveEps ==
    pc = "loss_returned" =>
        \A i \in Rows :
            LET raw == IF locals.null[i] THEN model.nullspk
                       ELSE model.spkembed[sid[i]]
                out == locals.spkembed[i]
            IN  /\ SumSq(raw) >= NormEps * NormEps =>
                      SumSq(out.num) = out.densq
                /\ SumSq(raw) < NormEps * NormEps =>
                      /\ out.num = raw
                      /\ out.densq = NormEps * NormEps
                      /\ SumSq(out.num) < out.densq

\* A call with a replaced row and a kept row, both of norm >= eps.
C6_Witness ==
    /\ pc = "loss_returned"
    /\ \E i, j \in Rows :
          /\ locals.null[i]
          /\ ~locals.null[j]
          /\ SumSq(model.nullspk) >= NormEps * NormEps
          /\ SumSq(model.spkembed[sid[j]]) >= NormEps * NormEps

\* C7: the schedule-boundary loss is finite: each logarithm is taken of a
\* value of at least the floor 1e-7.
C7_ScheduleLossFinite ==
    pc = "loss_returned" =>
        /\ RFinite(ret.losses.schedule_loss)
        /\ RFinite(ret.loss)
        /\ \A t \in Terms(ret.losses.schedule_loss) : t.arg >= ClampFloor

\* A call with alphas_bar[first] = 0 and alphas_bar[last] = 1.
C7_Witness ==
    /\ pc = "loss_returned"
    /\ ret.aux.alphas_bar[1] = 0
    /\ ret.aux.alphas_bar[Len(ret.aux.alphas_bar)] = One

\* C8: loss = noise_estim - schedule_loss, where noise_estim is the mean
\* absolute difference of base and denoised and schedule_loss is
\* log(max(1 - alphas_bar[last], 1e-7)) + log(max(alphas_bar[first], 1e-7));
\* the two reported sub-losses are these terms.
C8_LossIsDifference ==
    pc = "loss_returned" =>
        LET ab == ret.aux.alphas_bar
            ne == ret.losses.noise_estim
            sl == ret.losses.schedule_loss
            n == Len(ret.aux.base) * Len(ret.aux.base[1])
            total == SumSeq([i \in Rows |->
                        SumSeq([j \in DOMAIN ret.aux.base[i] |->
                            Abs(ret.aux.base[i][j] - ret.aux.denoised[i][j])])])
            logs == << LogTerm(IF One - ab[Len(ab)] > ClampFloor
                               THEN One - ab[Len(ab)] ELSE ClampFloor),
                       LogTerm(IF ab[1] > ClampFloor THEN ab[1] ELSE ClampFloor) >>
        IN  /\ ab = [k \in DOMAIN model.logsnr |-> Sigmoid(model.logsnr[k])]
            /\ RatEq(ne.rat, Rat(total, n)) /\ ne.pos = <<>> /\ ne.neg = <<>>
            /\ sl.rat.num = 0 /\ sl.pos = logs /\ sl.neg = <<>>
            /\ RatEq(ret.loss.rat, ne.rat)
            /\ ret.loss.pos = <<>>
            /\ ret.loss.neg = logs

\* A call with a non-zero noise-estimation loss and both boundary values
\* strictly inside (0, 1), away from the floor.
C8_Witness ==
    /\ pc = "loss_returned"
    /\ ret.losses.noise_estim.rat.num > 0
    /\ Len(ret.aux.alphas_bar) > 2
    /\ ret.aux.alphas_bar[1] = One - 4
    /\ ret.aux.alphas_bar[2] = 0
    /\ ret.aux.alphas_bar[Len(ret.aux.alphas_bar)] = One \div 2

C10_LossBounds ==
    pc = "loss_returned" =>
        LET ab == ret.aux.alphas_bar
            ne == ret.losses.noise_estim
            sl == ret.losses.schedule_loss
        IN  /\ RNonPos(sl)
            /\ \A t \in Terms(sl) : t.arg >= ClampFloor /\ t.arg <= One
            /\ RNonNeg(ne)
            /\ ret.aux.denoised = ret.aux.base => ne.rat.num = 0
            /\ RNonNeg(RSub(ret.loss, ne))
            /\ RNonNeg(ret.loss)
            /\ RZeroTerms(ret.loss) =>
                  /\ ret.aux.denoised = ret.aux.base
                  /\ ab[1] = One
                  /\ ab[Len(ab)] = 0

\* A call whose loss is exactly 0.
C10_Witness ==
    /\ pc = "loss_returned"
    /\ RZeroTerms(ret.loss)
    /\ ret.aux.base # ZerosLike(ret.aux.base)

=============================================================================
